---------------------------- MODULE Spec2Model ----------------------------
(***************************************************************************)
(* A model of the A2A image-generation agent (src/agent.py, src/main.py).  *)
(*                                                                         *)
(* Text is a sequence of one-character strings, bytes are sequences of     *)
(* integers 0..255, and an Optional value is a sequence of length 0 (None) *)
(* or 1 (the value).                                                       *)
(***************************************************************************)
EXTENDS Integers, Sequences, FiniteSets, Bags, TLC

(***************************************************************************)
(* Bounds of the model.                                                    *)
(***************************************************************************)
MaxRequests == 3
MaxIds == 3
MaxChunks == 3
MaxToolCalls == 2

(***************************************************************************)
(* Optional values.                                                        *)
(***************************************************************************)
None == <<>>

Some(v) == <<v>>

Truthy(opt) == opt # None /\ opt[1] # <<>>

(***************************************************************************)
(* Characters and text.                                                    *)
(***************************************************************************)
UpperLetters == <<"A", "B", "C", "D", "E", "F", "G", "H", "I", "J", "K", "L", "M", "N", "O", "P", "Q", "R", "S", "T", "U", "V", "W", "X", "Y", "Z">>

LowerLetters == <<"a", "b", "c", "d", "e", "f", "g", "h", "i", "j", "k", "l", "m", "n", "o", "p", "q", "r", "s", "t", "u", "v", "w", "x", "y", "z">>

HexDigits == <<"0", "1", "2", "3", "4", "5", "6", "7", "8", "9", "a", "b", "c", "d", "e", "f">>

Range(s) == {s[i] : i \in 1..Len(s)}

Min(S) == CHOOSE x \in S : \A y \in S : x <= y

\* str.lower() on one character
UpperSet == Range(UpperLetters)

LowerOf == [c \in UpperSet |->
               LowerLetters[CHOOSE i \in 1..Len(UpperLetters) : UpperLetters[i] = c]]

LowerChar(c) == IF c \in UpperSet THEN LowerOf[c] ELSE c

\* str.lower()
Lower(s) == [i \in 1..Len(s) |-> LowerChar(s[i])]

\* Python's `needle in hay` on str
Contains(hay, needle) ==
    \E i \in 0..(Len(hay) - Len(needle)) :
        SubSeq(hay, i + 1, i + Len(needle)) = needle

\* [a-f0-9] under re.IGNORECASE
HexSet == Range(HexDigits) \cup {c \in UpperSet : LowerOf[c] \in Range(HexDigits)}

IsHex(c) == c \in HexSet

\* [a-f0-9-] under re.IGNORECASE
IsHexDash(c) == IsHex(c) \/ c = "-"

\* \s
IsSpace(c) == c \in {" ", "\t", "\n", "\r", "\f"}

\* F(x), with x evaluated once
Apply(F(_), x) == CHOOSE r \in {F(v) : v \in {x}} : TRUE

\* the greedy \s* : the first index >= p that holds no whitespace
SkipSpace(s, p) ==
    CHOOSE q \in p..(Len(s) + 1) :
        /\ q = Len(s) + 1 \/ ~IsSpace(s[q])
        /\ \A k \in p..(q - 1) : IsSpace(s[k])

\* the greedy [a-f0-9-]* : the first index >= p that holds no hex/dash character
SkipHexDash(s, p) ==
    CHOOSE q \in p..(Len(s) + 1) :
        /\ q = Len(s) + 1 \/ ~IsHexDash(s[q])
        /\ \A k \in p..(q - 1) : IsHexDash(s[k])

\* a literal of the pattern matched at index p under re.IGNORECASE
LiteralAt(s, p, w) ==
    /\ p + Len(w) - 1 <= Len(s)
    /\ \A k \in 1..Len(w) : LowerChar(s[p + k - 1]) = LowerChar(w[k])

(***************************************************************************)
(* Request classification in handle_task.                                  *)
(***************************************************************************)
EditWord == <<"e", "d", "i", "t">>

ImageIdWord == <<"i", "m", "a", "g", "e", "_", "i", "d">>

\* IsEdit without the two .lower() calls
IsEditCaseSensitive(user_prompt) ==
    Contains(user_prompt, EditWord) /\ Contains(user_prompt, ImageIdWord)

\* is_edit = "edit" in user_prompt.lower() and "image_id" in user_prompt.lower()
IsEdit(user_prompt) ==
    Contains(Lower(user_prompt), EditWord) /\ Contains(Lower(user_prompt), ImageIdWord)

\* where group 1 of  image_id\s*[:=]\s*([a-f0-9-]+)  starts when the pattern
\* matches at index p, and 0 when it does not match there
EditTargetStart(s, p) ==
    IF ~LiteralAt(s, p, ImageIdWord) THEN 0
    ELSE LET Token(t) == IF t <= Len(s) /\ IsHexDash(s[t]) THEN t ELSE 0
             Separator(q) ==
                 IF q > Len(s) \/ s[q] \notin {":", "="} THEN 0
                 ELSE Apply(Token, SkipSpace(s, q + 1))
         IN  Apply(Separator, SkipSpace(s, p + Len(ImageIdWord)))

\* re.search(r'image_id\s*[:=]\s*([a-f0-9-]+)', user_prompt, re.IGNORECASE),
\* then match.group(1): the leftmost match, None without one
SearchEditTarget(s) ==
    LET Group(t) == Some(SubSeq(s, t, SkipHexDash(s, t) - 1))
        Leftmost(P) == IF P = {} THEN None ELSE Apply(Group, EditTargetStart(s, Min(P)))
    IN  Apply(Leftmost, {p \in 1..Len(s) : EditTargetStart(s, p) > 0})

\* image_id_to_edit as handle_task leaves it
ImageIdToEditOf(user_prompt) ==
    IF IsEdit(user_prompt) THEN SearchEditTarget(user_prompt) ELSE None

ImageIdToEdit(user_prompt) == Apply(ImageIdToEditOf, user_prompt)

(***************************************************************************)
(* Identifiers: str(uuid.uuid4()).                                         *)
(***************************************************************************)
\* the lengths of the hex groups of the pattern in extract_image_id
UuidGroups == <<8, 4, 4, 4, 12>>

RECURSIVE Sum(_)
Sum(s) == IF s = <<>> THEN 0 ELSE Head(s) + Sum(Tail(s))

\* the length of a match of the pattern: the groups and the dashes between them
UuidLen == Sum(UuidGroups) + Len(UuidGroups) - 1

\* the offsets (from 1) in a match at which the pattern has a dash
UuidDashes == {Sum(SubSeq(UuidGroups, 1, k)) + k : k \in 1..(Len(UuidGroups) - 1)}

\* [a-f0-9]{8}-[a-f0-9]{4}-[a-f0-9]{4}-[a-f0-9]{4}-[a-f0-9]{12} matches at
\* index p (re.IGNORECASE)
UuidAt(s, p) ==
    /\ p + UuidLen - 1 <= Len(s)
    /\ \A k \in 1..UuidLen :
           IF k \in UuidDashes THEN s[p + k - 1] = "-" ELSE s[p + k - 1] \in HexSet

\* the n-th identifier of the pool uuid4 draws from: a version 4, variant 1
\* UUID in its lower-case str() form
Uuid(n) ==
    [k \in 1..UuidLen |->
        IF k \in UuidDashes THEN "-"
        ELSE IF k = 15 THEN "4"
        ELSE IF k = 20 THEN "8"
        ELSE IF k = UuidLen THEN HexDigits[n + 1]
        ELSE "0"]

UuidPool == {Uuid(n) : n \in 1..MaxIds}

\* an identifier source that hands out the same identifier every time
Uuid4Repeating(cache) == {Uuid(1)}

\* uuid.uuid4(): a random identifier, never one handed out before.  No code
\* looks inside an identifier, so the identifiers are interchangeable and the
\* draw is the first one of the pool not handed out yet (every identifier
\* drawn goes into the store at once, so those are the ones not in it).
Uuid4(cache) ==
    {Uuid(n) : n \in {m \in 1..MaxIds :
                         /\ Uuid(m) \notin DOMAIN cache
                         /\ \A k \in 1..(m - 1) : Uuid(k) \in DOMAIN cache}}

(***************************************************************************)
(* extract_image_id.                                                       *)
(***************************************************************************)
IdLabel == <<"I", "D", ":", " ">>

\* r'ID: (<uuid>)' matches at index p (re.IGNORECASE)
LabelledUuidAt(s, p) == LiteralAt(s, p, IdLabel) /\ UuidAt(s, p + Len(IdLabel))

\* the 36 characters of a match that starts at index p
UuidFrom(s, p) == SubSeq(s, p, p + UuidLen - 1)

\* extract_image_id on a non-empty text: re.search for the labelled pattern
\* (the leftmost match, group 1), else re.findall(...)[0]
ExtractFrom(text) ==
    LET L == {p \in 1..Len(text) : LabelledUuidAt(text, p)}
    IN  IF L # {} THEN Some(UuidFrom(text, Min(L) + Len(IdLabel)))
        ELSE LET U == {p \in 1..Len(text) : UuidAt(text, p)}
             IN  IF U # {} THEN Some(UuidFrom(text, Min(U))) ELSE None

\* extract_image_id (the text is evaluated once, then scanned)
ExtractImageId(text) ==
    IF text = <<>> THEN None ELSE Apply(ExtractFrom, text)

(***************************************************************************)
(* base64.                                                                 *)
(***************************************************************************)
Base64Alphabet == <<"A", "B", "C", "D", "E", "F", "G", "H", "I", "J", "K", "L", "M", "N", "O", "P", "Q", "R", "S", "T", "U", "V", "W", "X", "Y", "Z", "a", "b", "c", "d", "e", "f", "g", "h", "i", "j", "k", "l", "m", "n", "o", "p", "q", "r", "s", "t", "u", "v", "w", "x", "y", "z", "0", "1", "2", "3", "4", "5", "6", "7", "8", "9", "+", "/">>

B64Char(v) == Base64Alphabet[v + 1]

\* base64.b64encode(image_bytes).decode('utf-8')
RECURSIVE B64Encode(_)
B64Encode(b) ==
    IF Len(b) = 0 THEN <<>>
    ELSE IF Len(b) = 1
    THEN <<B64Char(b[1] \div 4), B64Char((b[1] % 4) * 16), "=", "=">>
    ELSE IF Len(b) = 2
    THEN <<B64Char(b[1] \div 4), B64Char((b[1] % 4) * 16 + b[2] \div 16),
           B64Char((b[2] % 16) * 4), "=">>
    ELSE <<B64Char(b[1] \div 4), B64Char((b[1] % 4) * 16 + b[2] \div 16),
           B64Char((b[2] % 16) * 4 + b[3] \div 64), B64Char(b[3] % 64)>>
         \o B64Encode(SubSeq(b, 4, Len(b)))

B64Value(c) == (CHOOSE i \in 1..Len(Base64Alphabet) : Base64Alphabet[i] = c) - 1

\* base64.b64decode(image_data) in the client
RECURSIVE B64Decode(_)
B64Decode(t) ==
    IF Len(t) < 4 THEN <<>>
    ELSE LET v1 == B64Value(t[1])
             v2 == B64Value(t[2])
         IN  IF t[3] = "="
             THEN <<v1 * 4 + v2 \div 16>>
             ELSE IF t[4] = "="
             THEN <<v1 * 4 + v2 \div 16, (v2 % 16) * 16 + B64Value(t[3]) \div 4>>
             ELSE <<v1 * 4 + v2 \div 16, (v2 % 16) * 16 + B64Value(t[3]) \div 4,
                    (B64Value(t[3]) % 4) * 64 + B64Value(t[4])>>
                  \o B64Decode(SubSeq(t, 5, Len(t)))

(***************************************************************************)
(* Finite maps (Python dict).                                              *)
(***************************************************************************)
\* a store that keeps only its newest entry
PutReplacing(f, k, v) == [x \in {k} |-> v]

\* IMAGE_CACHE[image_id] = image_bytes
Put(f, k, v) == [x \in DOMAIN f \cup {k} |-> IF x = k THEN v ELSE f[x]]

(***************************************************************************)
(* What the outside world can hand the agent.                              *)
(***************************************************************************)
\* the bytes a download can deliver
Downloads == {<<137, 80, 78>>, <<137, 80>>, <<71>>}

\* Image.open(io.BytesIO(image_bytes)); img.verify(): whether PIL accepts the
\* bytes, decided here by the first byte of the PNG signature
Verifies(image_bytes) == Len(image_bytes) > 0 /\ image_bytes[1] = 137

\* str(e) of the exceptions the outbound calls raise
ApiErrorText == <<"q", "u", "o", "t", "a">>

RequestErrorText == <<"t", "i", "m", "e", "o", "u", "t">>

VerifyErrorText == <<"c", "a", "n", "n", "o", "t", " ", "i", "d", "e", "n", "t", "i", "f", "y", " ", "i", "m", "a", "g", "e", " ", "f", "i", "l", "e">>

\* --cache-dir, when given
CacheDirName == <<"c", "a", "c", "h", "e">>

PngSuffix == <<".", "p", "n", "g">>

\* str(e) of the OSError of a failed open(cache_path / f"{image_id}.png", "wb"):
\* it names the file
OpenErrorText(dir, image_id) ==
    <<"[", "E", "r", "r", "n", "o", " ", "1", "3", "]", " ", "P", "e", "r", "m", "i", "s", "s", "i", "o", "n", " ", "d", "e", "n", "i", "e", "d", ":", " ", "'">> \o dir \o <<"/">> \o image_id \o PngSuffix \o <<"'">>

\* str(e) of the OSError of a failed cache_path.mkdir(exist_ok=True): it names
\* the directory
MkdirErrorText(dir) == <<"[", "E", "r", "r", "n", "o", " ", "1", "3", "]", " ", "P", "e", "r", "m", "i", "s", "s", "i", "o", "n", " ", "d", "e", "n", "i", "e", "d", ":", " ", "'">> \o dir \o <<"'">>

\* the prompts clients post in the request model
TaskPrompts ==
    { <<>>,
      <<"a", " ", "c", "a", "t">>,
      <<"e", "d", "i", "t", " ", "i", "m", "a", "g", "e", "_", "i", "d", ":", " ">> \o Uuid(1) }

\* the bodies clients post: {"input": {}} and {"input": {"prompt": p}}
TaskBodies == {None} \cup {Some(p) : p \in TaskPrompts}

(***************************************************************************)
(* The messages of generate_image_with_openai.                             *)
(***************************************************************************)
SuccessPrefix == <<"I", "m", "a", "g", "e", " ", "g", "e", "n", "e", "r", "a", "t", "e", "d", " ", "s", "u", "c", "c", "e", "s", "s", "f", "u", "l", "l", "y", " ", "w", "i", "t", "h", " ", "I", "D", ":", " ">>

NoUrlMessage == <<"F", "a", "i", "l", "e", "d", " ", "t", "o", " ", "g", "e", "t", " ", "i", "m", "a", "g", "e", " ", "U", "R", "L", " ", "f", "r", "o", "m", " ", "O", "p", "e", "n", "A", "I", " ", "r", "e", "s", "p", "o", "n", "s", "e", ".">>

ApiErrorPrefix == <<"O", "p", "e", "n", "A", "I", " ", "A", "P", "I", " ", "e", "r", "r", "o", "r", ":", " ">>

DownloadErrorPrefix == <<"F", "a", "i", "l", "e", "d", " ", "t", "o", " ", "d", "o", "w", "n", "l", "o", "a", "d", " ", "i", "m", "a", "g", "e", ":", " ">>

GenerateErrorPrefix == <<"F", "a", "i", "l", "e", "d", " ", "t", "o", " ", "g", "e", "n", "e", "r", "a", "t", "e", " ", "i", "m", "a", "g", "e", ":", " ">>

SuccessMessage(image_id) == SuccessPrefix \o image_id

(***************************************************************************)
(* The state.                                                              *)
(***************************************************************************)
VARIABLES
    IMAGE_CACHE,   \* the module-level dict: identifier -> bytes
    cache_dir,     \* Optional: the directory given to setup_a2a_server
    disk,          \* the identifiers whose .png file is in the cache directory
    inbox,         \* the requests received and not yet answered
    loop,          \* the event loop: idle, or the handle_task call it is inside
    resp,          \* the response sent last
    call,          \* the generate_image_with_openai call that returned last
    issued,        \* identifier -> bytes, of the calls that returned success
    inserts,       \* how many times IMAGE_CACHE[image_id] = image_bytes ran
    generations,   \* the <<identifier, bytes>> of every such insertion
    nreq,          \* how many requests have been received
    cls,           \* the classification run of one prompt (SpecClassify)
    ext,           \* the extract_image_id run of one text (SpecExtract)
    out            \* the outbound calls made for the task request handled last

vars == <<IMAGE_CACHE, cache_dir, disk, inbox, loop, resp, call, issued, inserts, generations, nreq, cls, ext, out>>

EmptyMap == [x \in {} |-> <<>>]

Idle ==
    [pc |-> "idle", request |-> None, is_edit |-> FALSE,
     image_id_to_edit |-> None, tool_target |-> None, tool |-> "none",
     before |-> EmptyMap]

NoRequest == [kind |-> "none", arg |-> None]

NoResponse ==
    [to |-> NoRequest, kind |-> "none", status |-> 0,
     result |-> [type |-> "str", val |-> <<>>], artifacts |-> <<>>, content |-> <<>>]

NoCall ==
    [outcome |-> "none", tool |-> "none", image_id_to_edit |-> None,
     message |-> <<>>, image_id |-> None, before |-> EmptyMap, after |-> EmptyMap]

NoClassification ==
    [pc |-> "off", user_prompt |-> <<>>, is_edit |-> FALSE, image_id_to_edit |-> None]

\* no task request handled yet
NoOutbound ==
    [invocations |-> 0, generate |-> 0, download |-> 0, failed |-> FALSE,
     after_failure |-> FALSE, added |-> 0]

NoExtraction == [pc |-> "off", text |-> <<>>, result |-> None, again |-> None]

\* the module is imported and setup_a2a_server(cache_dir) has returned
InitServer ==
    /\ IMAGE_CACHE = EmptyMap
    /\ cache_dir \in {None, Some(CacheDirName)}
    /\ disk = {}
    /\ inbox = EmptyBag
    /\ loop = Idle
    /\ resp = NoResponse
    /\ call = NoCall
    /\ issued = EmptyMap
    /\ inserts = 0
    /\ generations = {}
    /\ nreq = 0

Init == InitServer /\ cls = NoClassification /\ ext = NoExtraction /\ out = NoOutbound

(***************************************************************************)
(* Clients.                                                                *)
(***************************************************************************)
Receive(kind, arg) ==
    /\ nreq < MaxRequests
    /\ nreq' = nreq + 1
    /\ inbox' = inbox (+) SetToBag({[kind |-> kind, arg |-> arg]})
    /\ UNCHANGED <<IMAGE_CACHE, cache_dir, disk, loop, resp, call, issued, inserts, generations, cls, ext, out>>

PostTask == \E body \in TaskBodies : Receive("task", body)

GetImage == \E image_id \in UuidPool : Receive("image", Some(image_id))

GetHealthz == Receive("healthz", None)

(***************************************************************************)
(* Responses.                                                              *)
(***************************************************************************)
\* raise HTTPException(status_code, detail), and the framework's own errors
ErrorResponse(kind, status_code, detail) ==
    [kind |-> kind, status |-> status_code,
     result |-> [type |-> "detail", val |-> detail], artifacts |-> <<>>, content |-> <<>>]

\* class A2AResponse(BaseModel): result: str; artifacts: List[A2AArtifact].
\* Constructing it validates the fields: a result that is no str raises a
\* ValidationError inside the handler, which the framework answers with 500.
A2AResponse(result, artifacts) ==
    IF result.type = "str"
    THEN [kind |-> "task", status |-> 200, result |-> result,
          artifacts |-> artifacts, content |-> <<>>]
    ELSE ErrorResponse("task", 500, <<"I", "n", "t", "e", "r", "n", "a", "l", " ", "S", "e", "r", "v", "e", "r", " ", "E", "r", "r", "o", "r">>)

\* str(crew_result)
Str(crew_result) == [type |-> "str", val |-> crew_result.val]

\* crew.kickoff(): the crew runs the tool once and its CrewOutput carries the
\* tool's message
CrewOutput(result_msg) == [type |-> "CrewOutput", val |-> result_msg]

\* handle_task from crew.kickoff() returning to its return statement
TaskResponse(result_msg, cache) ==
    LET crew_result == CrewOutput(result_msg)
        crew_result_str == Str(crew_result)
        Answer(image_id) ==
            IF ~Truthy(image_id) \/ image_id[1] \notin DOMAIN cache
            THEN A2AResponse(crew_result, <<>>)
            ELSE A2AResponse(crew_result_str,
                             <<[type |-> "image/png",
                                data |-> B64Encode(cache[image_id[1]])]>>)
    IN  Apply(Answer, ExtractImageId(crew_result_str.val))

\* get_image
ImageResponse(image_id, cache) ==
    IF image_id \notin DOMAIN cache
    THEN ErrorResponse("image", 404, <<"I", "m", "a", "g", "e", " ", "n", "o", "t", " ", "f", "o", "u", "n", "d">>)
    ELSE [kind |-> "image", status |-> 200,
          result |-> [type |-> "media", val |-> "image/png"],
          artifacts |-> <<>>, content |-> cache[image_id]]

\* health_check
HealthResponse ==
    [kind |-> "healthz", status |-> 200,
     result |-> [type |-> "json", val |-> <<"status", "ok">>],
     artifacts |-> <<>>, content |-> <<>>]

(***************************************************************************)
(* generate_image_with_openai.                                             *)
(***************************************************************************)
\* a return of the function: its two results, and the store and the cache
\* directory as it leaves them
Returned(outcome, message, image_id, cache, files) ==
    [outcome |-> outcome, message |-> message, image_id |-> image_id,
     cache |-> cache, files |-> files, inserted |-> <<>>]

\* a return after line 73 ran for image_id and image_bytes
ReturnedAfterInsert(outcome, message, image_id, cache, files, key, image_bytes) ==
    [outcome |-> outcome, message |-> message, image_id |-> image_id,
     cache |-> cache, files |-> files, inserted |-> << <<key, image_bytes>> >>]

\* the except clauses
ApiErrorReturn(cache, files) ==
    Returned("api_error", ApiErrorPrefix \o ApiErrorText, None, cache, files)

NoUrlReturn(cache, files) ==
    Returned("no_url", NoUrlMessage, None, cache, files)

DownloadErrorReturn(cache, files) ==
    Returned("download_error", DownloadErrorPrefix \o RequestErrorText, None, cache, files)

\* img.verify() raises
BadImageReturn(cache, files) ==
    Returned("bad_image", GenerateErrorPrefix \o VerifyErrorText, None, cache, files)

\* the outcomes of the writes to the cache directory; nothing is written when
\* no directory is configured
WriteOutcomes(dir) ==
    IF Truthy(dir) THEN {"written", "mkdir_error", "open_error"} ELSE {"skipped"}

\* from the verified bytes to the return: insert under the fresh identifier,
\* then write the file when a directory is configured
StoreAndReturn(cache, files, dir, image_bytes, image_id, write) ==
    LET stored == Put(cache, image_id, image_bytes)
    IN  IF ~Truthy(dir)
        THEN ReturnedAfterInsert("ok", SuccessMessage(image_id), Some(image_id),
                                 stored, files, image_id, image_bytes)
        ELSE IF write = "written"
        THEN ReturnedAfterInsert("ok", SuccessMessage(image_id), Some(image_id),
                                 stored, files \cup {image_id}, image_id, image_bytes)
        ELSE IF write = "open_error"
        THEN ReturnedAfterInsert("write_error",
                                 GenerateErrorPrefix \o OpenErrorText(dir[1], image_id),
                                 None, stored, files, image_id, image_bytes)
        ELSE ReturnedAfterInsert("write_error",
                                 GenerateErrorPrefix \o MkdirErrorText(dir[1]),
                                 None, stored, files, image_id, image_bytes)

(***************************************************************************)
(* The tool: OpenAIImageGenerationTool._run and edit_image_with_openai.    *)
(***************************************************************************)
\* edit_image_with_openai(client, image_id_to_edit, edit_prompt, cache_dir):
\* a warning when the identifier is not in IMAGE_CACHE, then whatever
\* generate_image_with_openai(client, edit_prompt, cache_dir) does and returns
EditImageWithOpenai(image_id_to_edit, generated) == generated

\* _run(prompt, image_id_to_edit): the edit when an identifier was passed,
\* the generation otherwise
Run(image_id_to_edit, generated) ==
    IF Truthy(image_id_to_edit)
    THEN EditImageWithOpenai(image_id_to_edit[1], generated)
    ELSE generated

(***************************************************************************)
(* The server: one event loop (uvicorn.run), whose handlers are coroutines *)
(* that never await, so a handler runs to its end before the next starts,  *)
(* and the loop is held while handle_task is inside crew.kickoff().        *)
(***************************************************************************)
\* the response leaves: the request is no longer waiting
Answered(r) == inbox (-) SetToBag({r})

\* a response on the wire, with the request it answers
Reply(r, x) ==
    [to |-> r, kind |-> x.kind, status |-> x.status, result |-> x.result,
     artifacts |-> x.artifacts, content |-> x.content]

\* the outbound calls that fail: images.generate raising or giving no URL,
\* requests.get raising
OutboundFailures == {"api_error", "no_url", "download_error"}

\* the count of the request's outbound calls and insertions when a tool call
\* returns ret
Counted(ret) ==
    [out EXCEPT !.failed = @ \/ ret.outcome \in OutboundFailures,
                !.added = @ + Len(ret.inserted)]

\* the tool call returns to the agent
ToolReturned(ret) ==
    /\ IMAGE_CACHE' = ret.cache
    /\ disk' = ret.files
    /\ inserts' = inserts + Len(ret.inserted)
    /\ generations' = generations \cup Range(ret.inserted)
    /\ issued' = IF ret.image_id = None THEN issued
                 ELSE Put(issued, ret.image_id[1], ret.cache[ret.image_id[1]])
    /\ call' = [outcome |-> ret.outcome, tool |-> loop.tool,
                image_id_to_edit |-> loop.tool_target, message |-> ret.message,
                image_id |-> ret.image_id, before |-> loop.before, after |-> ret.cache]
    /\ UNCHANGED <<cache_dir, nreq, cls, ext>>

\* the tool call returns, crew.kickoff() returns, handle_task answers
Finish(ret) ==
    /\ ToolReturned(ret)
    /\ resp' = Reply(loop.request[1], TaskResponse(ret.message, ret.cache))
    /\ inbox' = Answered(loop.request[1])
    /\ loop' = Idle
    /\ out' = Counted(ret)

FinishTask(returned) == \E ret \in {Run(loop.tool_target, returned)} : Finish(ret)

\* the request body fails the A2ATask model: the framework answers 422 and
\* handle_task is not called
RejectTask ==
    \E r \in BagToSet(inbox) :
        /\ loop.pc = "idle"
        /\ r.kind = "task"
        /\ r.arg = None
        /\ resp' = Reply(r, ErrorResponse("task", 422, <<"F", "i", "e", "l", "d", " ", "r", "e", "q", "u", "i", "r", "e", "d">>))
        /\ inbox' = Answered(r)
        /\ UNCHANGED <<IMAGE_CACHE, cache_dir, disk, loop, call, issued, inserts, generations, nreq, cls, ext, out>>

\* handle_task up to the point where it blocks: the empty-prompt check, the
\* classification, crew.kickoff(), the crew's call of the tool's _run, and
\* in it client.images.generate(...)
HandleTask ==
    \E r \in BagToSet(inbox) :
        /\ loop.pc = "idle"
        /\ r.kind = "task"
        /\ r.arg # None
        /\ LET user_prompt == r.arg[1]
           IN  IF user_prompt = <<>>
               THEN /\ resp' = Reply(r, ErrorResponse("task", 400, <<"P", "r", "o", "m", "p", "t", " ", "i", "s", " ", "r", "e", "q", "u", "i", "r", "e", "d">>))
                    /\ inbox' = Answered(r)
                    /\ UNCHANGED <<loop, out>>
               ELSE /\ \E target \in {None, ImageIdToEdit(user_prompt)} :
                           loop' = [pc |-> "images.generate", request |-> Some(r),
                                    is_edit |-> IsEdit(user_prompt),
                                    image_id_to_edit |-> ImageIdToEdit(user_prompt),
                                    tool_target |-> target,
                                    tool |-> IF Truthy(target) THEN "edit" ELSE "generate",
                                    before |-> IMAGE_CACHE]
                    /\ out' = [NoOutbound EXCEPT !.invocations = 1, !.generate = 1]
                    /\ UNCHANGED <<resp, inbox>>
        /\ UNCHANGED <<IMAGE_CACHE, cache_dir, disk, call, issued, inserts, generations, nreq, cls, ext>>

\* client.images.generate(...) returns or raises
ImagesGenerateReturns ==
    /\ loop.pc = "images.generate"
    /\ \E outcome \in {"api_error", "no_url", "url"} :
           IF outcome = "api_error" THEN FinishTask(ApiErrorReturn(IMAGE_CACHE, disk))
           ELSE IF outcome = "no_url" THEN FinishTask(NoUrlReturn(IMAGE_CACHE, disk))
           ELSE /\ loop' = [loop EXCEPT !.pc = "requests.get"]
                /\ out' = [out EXCEPT !.download = @ + 1]
                /\ UNCHANGED <<IMAGE_CACHE, cache_dir, disk, inbox, resp, call, issued,
                               inserts, generations, nreq, cls, ext>>

\* requests.get(image_url) returns or raises, and the rest of the call runs
DownloadReturns ==
    /\ loop.pc = "requests.get"
    /\ \E download \in {None} \cup {Some(b) : b \in Downloads} :
           IF download = None
           THEN FinishTask(DownloadErrorReturn(IMAGE_CACHE, disk))
           ELSE IF ~Verifies(download[1])
           THEN FinishTask(BadImageReturn(IMAGE_CACHE, disk))
           ELSE \E image_id \in Uuid4(IMAGE_CACHE), write \in WriteOutcomes(cache_dir) :
                    FinishTask(StoreAndReturn(IMAGE_CACHE, disk, cache_dir, download[1],
                                              image_id, write))

HandleImage ==
    \E r \in BagToSet(inbox) :
        /\ loop.pc = "idle"
        /\ r.kind = "image"
        /\ resp' = Reply(r, ImageResponse(r.arg[1], IMAGE_CACHE))
        /\ inbox' = Answered(r)
        /\ UNCHANGED <<IMAGE_CACHE, cache_dir, disk, loop, call, issued, inserts, generations, nreq, cls, ext, out>>

HandleHealthz ==
    \E r \in BagToSet(inbox) :
        /\ loop.pc = "idle"
        /\ r.kind = "healthz"
        /\ resp' = Reply(r, HealthResponse)
        /\ inbox' = Answered(r)
        /\ UNCHANGED <<IMAGE_CACHE, cache_dir, disk, loop, call, issued, inserts, generations, nreq, cls, ext, out>>

Next ==
    \/ PostTask
    \/ GetImage
    \/ GetHealthz
    \/ RejectTask
    \/ HandleTask
    \/ ImagesGenerateReturns
    \/ DownloadReturns
    \/ HandleImage
    \/ HandleHealthz

Spec == Init /\ [][Next]_vars

(***************************************************************************)
(* The agent inside crew.kickoff() decides how often it uses its tool, and *)
(* handle_task sets no limit.  Spec has the runs in which it uses the tool *)
(* once for a request; SpecCrew adds those in which it uses it again after *)
(* a tool call returned, up to MaxToolCalls times.                         *)
(***************************************************************************)
\* what generate_image_with_openai can return from client.images.generate
GenerateReturns == {ApiErrorReturn(IMAGE_CACHE, disk), NoUrlReturn(IMAGE_CACHE, disk)}

\* what it can return once requests.get was called
DownloadedReturns ==
    {DownloadErrorReturn(IMAGE_CACHE, disk)}
    \cup {BadImageReturn(IMAGE_CACHE, disk) : b \in {d \in Downloads : ~Verifies(d)}}
    \cup {StoreAndReturn(IMAGE_CACHE, disk, cache_dir, b[1], b[2], b[3]) :
             b \in {d \in Downloads : Verifies(d)} \X Uuid4(IMAGE_CACHE)
                   \X WriteOutcomes(cache_dir)}

\* what the tool call in progress can return
ToolReturns ==
    IF loop.pc = "images.generate" THEN GenerateReturns
    ELSE IF loop.pc = "requests.get" THEN DownloadedReturns
    ELSE {}

\* the tool call returns and the agent calls _run once more:
\* client.images.generate(...) is called again
InvokeAgain(ret) ==
    /\ ToolReturned(ret)
    /\ loop' = [loop EXCEPT !.pc = "images.generate", !.before = ret.cache]
    /\ out' = [Counted(ret) EXCEPT !.invocations = @ + 1, !.generate = 1, !.download = 0,
                                   !.after_failure = Counted(ret).failed]
    /\ UNCHANGED <<resp, inbox>>

AgentInvokesToolAgain ==
    /\ out.invocations < MaxToolCalls
    /\ \E returned \in ToolReturns :
           \E ret \in {Run(loop.tool_target, returned)} : InvokeAgain(ret)

NextCrew == Next \/ AgentInvokesToolAgain

SpecCrew == Init /\ [][NextCrew]_vars

(***************************************************************************)
(* The server under the scheduling it has: the event loop runs a handler   *)
(* whenever a request waits and the loop is free, and the OpenAI client    *)
(* ends images.generate within its default timeout.  requests.get is       *)
(* called without a timeout, so nothing makes the download return.         *)
(***************************************************************************)
FairSpec ==
    /\ Spec
    /\ WF_vars(RejectTask)
    /\ WF_vars(HandleTask)
    /\ WF_vars(HandleImage)
    /\ WF_vars(HandleHealthz)
    /\ WF_vars(ImagesGenerateReturns)

(***************************************************************************)
(* The classification of handle_task, run on one prompt.                   *)
(***************************************************************************)
\* the pieces the prompts of the classification runs are made of
Chunks ==
    { <<"e", "d", "i", "t", " ">>, <<"E", "d">>, <<"i", "T">>, <<"i", "m", "a", "g", "e", "_", "i", "d">>, <<"I", "M", "A", "G", "E", "_", "I", "D", " ", ":">>, <<"=", " ">>, <<"a", "1", "-", "B">>, <<"x", "y">> }

RECURSIVE Flatten(_)
Flatten(chunks) == IF chunks = <<>> THEN <<>> ELSE Head(chunks) \o Flatten(Tail(chunks))

\* the non-empty prompts of at most MaxChunks pieces
Prompts == {Flatten(cs) : cs \in UNION {[1..n -> Chunks] : n \in 1..MaxChunks}}

InitClassify ==
    /\ InitServer
    /\ cache_dir = None
    /\ cls \in {[pc |-> "start", user_prompt |-> p, is_edit |-> FALSE,
                 image_id_to_edit |-> None] : p \in Prompts}
    /\ ext = NoExtraction
    /\ out = NoOutbound

\* lines 190-199 of handle_task
Classify ==
    /\ cls.pc = "start"
    /\ cls' = [pc |-> "done", user_prompt |-> cls.user_prompt,
               is_edit |-> IsEdit(cls.user_prompt),
               image_id_to_edit |-> ImageIdToEdit(cls.user_prompt)]
    /\ UNCHANGED <<IMAGE_CACHE, cache_dir, disk, inbox, loop, resp, call, issued,
                   inserts, generations, nreq, ext, out>>

SpecClassify == InitClassify /\ [][Classify]_vars

(***************************************************************************)
(* extract_image_id on its own: one call on a text, and one more on what   *)
(* it returned.                                                            *)
(***************************************************************************)
\* an identifier written with upper-case hex digits
UpperUuid == <<"A", "B", "C", "D", "E", "F">> \o SubSeq(Uuid(2), 7, UuidLen)

\* the pieces the texts are made of
TextChunks ==
    { IdLabel, Lower(IdLabel), Uuid(1), Uuid(2), UpperUuid,
      SubSeq(Uuid(1), 1, UuidLen - 1), <<",", " ">> }

\* the texts of at most MaxChunks pieces, the empty one included
Texts == {Flatten(cs) : cs \in UNION {[1..n -> TextChunks] : n \in 0..MaxChunks}}

InitExtract ==
    /\ InitServer
    /\ cache_dir = None
    /\ cls = NoClassification
    /\ ext \in {[pc |-> "start", text |-> t, result |-> None, again |-> None] : t \in Texts}
    /\ out = NoOutbound

\* image_id = extract_image_id(text), then extract_image_id(image_id)
ExtractTwice(text) ==
    LET Again(image_id) ==
            [pc |-> "done", text |-> text, result |-> image_id,
             again |-> IF image_id = None THEN None ELSE ExtractImageId(image_id[1])]
    IN  Apply(Again, ExtractImageId(text))

Extract ==
    /\ ext.pc = "start"
    /\ ext' = ExtractTwice(ext.text)
    /\ UNCHANGED <<IMAGE_CACHE, cache_dir, disk, inbox, loop, resp, call, issued,
                   inserts, generations, nreq, cls, out>>

SpecExtract == InitExtract /\ [][Extract]_vars

(***************************************************************************)
(* Properties.                                                             *)
(***************************************************************************)
\* the last response answers a POST /a2a/task whose prompt was not empty, so
\* `call` is the generation call made for it
AnsweredGeneration ==
    /\ resp.kind = "task"
    /\ resp.to.kind = "task"
    /\ Truthy(resp.to.arg)

\* C1: if a generation returned success with identifier i for bytes b, every
\* later GET /image/i answers 200 with exactly b; and GET /image/j for an
\* identifier j that no successful generation returned answers 404.
C1_FetchAnswersIssuedBytesOnly ==
    resp.kind = "image" =>
        LET i == resp.to.arg[1]
        IN  IF i \in DOMAIN issued
            THEN resp.status = 200 /\ resp.content = issued[i]
            ELSE resp.status = 404

\* C2: whenever generate_image_with_openai returns a failure, IMAGE_CACHE is
\* what it was before the call; hence every identifier in IMAGE_CACHE was
\* returned by a call that reported success with it.
C2_FailureLeavesStoreUntouched ==
    /\ (call.outcome # "none" /\ call.image_id = None) => call.after = call.before
    /\ DOMAIN IMAGE_CACHE \subseteq DOMAIN issued

\* C3: when the generation attempt of a POST /a2a/task with a non-empty prompt
\* fails by provider rejection, download failure or bytes that do not verify,
\* the endpoint answers 200 with artifacts = [] and a result string that
\* describes the failure.
C3_FailureAnswers200 ==
    (AnsweredGeneration /\ call.outcome \in {"api_error", "download_error", "bad_image"}) =>
        /\ resp.status = 200
        /\ resp.artifacts = <<>>
        /\ resp.result = [type |-> "str", val |-> call.message]

\* C4: when the provider call of a POST /a2a/task with a non-empty prompt
\* succeeds (the service gave a URL, the download gave bytes, the bytes
\* verified), the response has exactly one image/png artifact whose data
\* base64-decodes to the bytes stored under the identifier that
\* extract_image_id finds in the response's result.
C4_SuccessCarriesStoredBytes ==
    (AnsweredGeneration /\ call.outcome \in {"ok", "write_error"}) =>
        /\ resp.status = 200
        /\ Len(resp.artifacts) = 1
        /\ resp.artifacts[1].type = "image/png"
        /\ LET image_id == ExtractImageId(resp.result.val)
           IN  /\ image_id # None
               /\ image_id[1] \in DOMAIN IMAGE_CACHE
               /\ B64Decode(resp.artifacts[1].data) = IMAGE_CACHE[image_id[1]]

\* C5: when the cache directory is configured and writing the file fails after
\* the bytes were downloaded and verified, generate_image_with_openai still
\* returns the success message with the new identifier, and the image is
\* retrievable under it.
C5_WriteFailureStillSucceeds ==
    call.outcome = "write_error" =>
        /\ call.image_id # None
        /\ call.message = SuccessMessage(call.image_id[1])
        /\ call.image_id[1] \in DOMAIN IMAGE_CACHE

\* C6: POST /a2a/task with an empty or missing prompt answers 400, makes no
\* generation call and leaves IMAGE_CACHE unchanged.
C6_EmptyOrMissingPromptAnswers400 ==
    [][\A r \in BagToSet(inbox) :
          (r.kind = "task" /\ ~Truthy(r.arg) /\ resp' # resp /\ resp'.to = r) =>
              /\ resp'.status = 400
              /\ loop' = loop
              /\ call' = call
              /\ IMAGE_CACHE' = IMAGE_CACHE]_vars

\* C7: IMAGE_CACHE only grows and its entries never change: an identifier that
\* maps to bytes b in one state maps to b in every later state, and no
\* identifier is used for two insertions.
C7_StoreOnlyGrows ==
    /\ [][\A i \in DOMAIN IMAGE_CACHE :
             i \in DOMAIN IMAGE_CACHE' /\ IMAGE_CACHE'[i] = IMAGE_CACHE[i]]_vars
    /\ [](inserts = Cardinality(DOMAIN IMAGE_CACHE))

C7_Witness ==
    /\ Cardinality(DOMAIN IMAGE_CACHE) >= 2
    /\ \E i, j \in DOMAIN IMAGE_CACHE : IMAGE_CACHE[i] # IMAGE_CACHE[j]

HealthzWaits == BagIn([kind |-> "healthz", arg |-> None], inbox)

HealthzAnswered ==
    /\ resp.kind = "healthz"
    /\ resp.status = 200
    /\ resp.result = [type |-> "json", val |-> <<"status", "ok">>]

\* C8: every GET /a2a/healthz is eventually answered with 200 and
\* {"status": "ok"}, whatever other requests are in progress, a POST /a2a/task
\* whose outbound call has not returned included.
C8_HealthzEventuallyAnswered == HealthzWaits ~> HealthzAnswered

\* C9: under any interleaving of POST /a2a/task and GET /image requests the
\* store is not corrupted: the insertions use pairwise distinct identifiers,
\* every inserted entry is present with its own bytes, and a read of an
\* identifier answers not-found (nothing inserted under it so far) or the
\* bytes of the generation that drew it.
C9_StoreNotCorrupted ==
    /\ Cardinality({g[1] : g \in generations}) = inserts
    /\ \A g \in generations : g[1] \in DOMAIN IMAGE_CACHE /\ IMAGE_CACHE[g[1]] = g[2]
    /\ resp.kind = "image" =>
           \/ resp.status = 404 /\ resp.to.arg[1] \notin {g[1] : g \in generations}
           \/ resp.status = 200 /\ <<resp.to.arg[1], resp.content>> \in generations

C9_Witness ==
    /\ Cardinality(DOMAIN issued) >= 2
    /\ \E i, j \in DOMAIN issued : issued[i] # issued[j]
    /\ resp.kind = "image"
    /\ resp.status = 200

(***************************************************************************)
(* C10, stated on the prompt itself.                                       *)
(***************************************************************************)
SameLetter(a, b) ==
    a = b \/ \E n \in 1..Len(UpperLetters) : {a, b} = {UpperLetters[n], LowerLetters[n]}

\* word w stands at index p of prompt s, in any case
WordAt(s, p, w) ==
    /\ p + Len(w) - 1 <= Len(s)
    /\ \A k \in 1..Len(w) : SameLetter(s[p + k - 1], w[k])

HasWord(s, w) == \E p \in 1..Len(s) : WordAt(s, p, w)

AllSpace(s, from, to) == \A k \in from..to : s[k] \in {" ", "\t", "\n", "\r", "\f"}

HexDashChar(c) ==
    c \in {"0", "1", "2", "3", "4", "5", "6", "7", "8", "9", "a", "b", "c", "d", "e", "f",
           "A", "B", "C", "D", "E", "F", "-"}

\* s[t..e] is the token after the image_id label at index p and its separator:
\* label, optional whitespace, ':' or '=', optional whitespace, then the
\* longest run of hex/dash characters
TokenAfterLabel(s, p, t, e) ==
    /\ t <= e
    /\ HexDashChar(s[t])
    /\ e = Len(s) \/ ~HexDashChar(s[e + 1])
    /\ \A k \in t..e : HexDashChar(s[k])
    /\ WordAt(s, p, ImageIdWord)
    /\ \E q \in (p + Len(ImageIdWord))..(t - 1) :
           /\ s[q] \in {":", "="}
           /\ AllSpace(s, p + Len(ImageIdWord), q - 1)
           /\ AllSpace(s, q + 1, t - 1)

\* the labels of s that a token follows
LabelsWithToken(s) ==
    {p \in 1..Len(s) :
        /\ WordAt(s, p, ImageIdWord)
        /\ \E t \in p..Len(s) : \E e \in t..Len(s) : TokenAfterLabel(s, p, t, e)}

\* the targets the claim allows for prompt s: the token after the first label
\* that has one, nothing when no label has one
TargetsOf(s) ==
    LET After(p) ==
            {Some(SubSeq(s, te[1], te[2])) :
                te \in {x \in (1..Len(s)) \X (1..Len(s)) :
                           TokenAfterLabel(s, p, x[1], x[2])}}
        First(L) == IF L = {} THEN {None} ELSE Apply(After, Min(L))
    IN  Apply(First, LabelsWithToken(s))

ClassifiedAs(s, is_edit, target) ==
    /\ is_edit = (HasWord(s, EditWord) /\ HasWord(s, ImageIdWord))
    /\ ~is_edit => target = None
    /\ is_edit => TargetsOf(s) = {target}

\* C10: is_edit is true exactly when the prompt contains both "edit" and
\* "image_id" in any case; when it is true the target identifier is the
\* hex/dash token that follows the (first) image_id label that has one after
\* its ':' or '=' separator, and absent when there is no such token; when it is
\* false there is no target.
C10_ClassificationByKeywords ==
    cls.pc = "done" =>
        \E s \in {cls.user_prompt} : ClassifiedAs(s, cls.is_edit, cls.image_id_to_edit)

C10_Witness ==
    /\ cls.pc = "done"
    /\ cls.is_edit
    /\ ~Contains(cls.user_prompt, EditWord)
    /\ ~Contains(cls.user_prompt, ImageIdWord)
    /\ cls.image_id_to_edit = Some(<<"E", "d">>)

(***************************************************************************)
(* C11, stated on the text itself.                                         *)
(***************************************************************************)
\* a UUID-shaped token (8-4-4-4-12 hex digits of either case) stands at index
\* p of text s
UuidShapedAt(s, p) ==
    /\ p + 35 <= Len(s)
    /\ \A k \in 0..35 :
           IF k \in {8, 13, 18, 23} THEN s[p + k] = "-"
           ELSE HexDashChar(s[p + k]) /\ s[p + k] # "-"

\* the token at index p is labelled: the text "ID: " stands right before it
IdLabelledAt(s, p) ==
    /\ p > 4
    /\ SubSeq(s, p - 4, p - 1) = <<"I", "D", ":", " ">>
    /\ UuidShapedAt(s, p)

\* what the precedence rule gives for text s
FirstByPrecedence(s) ==
    LET TokenAt(p) == Some(SubSeq(s, p, p + 35))
        Pick(P) ==
            LET L == {p \in P : IdLabelledAt(s, p)}
            IN  IF L # {} THEN TokenAt(Min(L))
                ELSE IF P # {} THEN TokenAt(Min(P))
                ELSE None
    IN  Apply(Pick, {p \in 1..Len(s) : UuidShapedAt(s, p)})

\* C11: extract_image_id returns, for every text, the first "ID: "-labelled
\* UUID-shaped token if there is one, otherwise the first UUID-shaped token,
\* otherwise nothing (the empty text included); and applied to an identifier
\* it returned it returns that identifier.
C11_ExtractFollowsPrecedence ==
    ext.pc = "done" =>
        /\ ext.result = FirstByPrecedence(ext.text)
        /\ ext.result # None => ext.again = ext.result

\* C12: edit_image_with_openai(client, id, prompt) behaves as
\* generate_image_with_openai(client, prompt) whether id is in IMAGE_CACHE or
\* not: the provider outcome decides the kind of result as it does for a
\* generation, a success adds one entry under a fresh identifier, a failure
\* adds none, and the entry under id is left as it was.
C12_EditBehavesAsGenerate ==
    call.tool = "edit" =>
        /\ (call.image_id # None) = (call.outcome = "ok")
        /\ call.image_id # None =>
               /\ call.image_id[1] \notin DOMAIN call.before
               /\ DOMAIN call.after = DOMAIN call.before \cup {call.image_id[1]}
               /\ \A i \in DOMAIN call.before : call.after[i] = call.before[i]
        /\ call.image_id = None => call.after = call.before
        /\ \A i \in Range(call.image_id_to_edit) :
               i \in DOMAIN call.before =>
                   i \in DOMAIN call.after /\ call.after[i] = call.before[i]

=============================================================================
